---------------------------- MODULE Spec2Model ----------------------------
(***************************************************************************)
(* Model of the friend / follow relationship handlers, the derived list    *)
(* views, account deactivation and password change of                      *)
(* src/Accounts/views.py (class UsersViewSet).                              *)
(*                                                                         *)
(* Three specifications share the handlers:                                *)
(*   Spec      requests handled one at a time (each handler is one step):  *)
(*             add_friend, remove_friend, destroy and the list views;      *)
(*   SpecPw    change_password and destroy, one request at a time;        *)
(*   SpecConc  several workers running add_friend for the same edge, with  *)
(*             get_or_create split into its database statements.           *)
(* The password of a user and the relationship rows are read and written   *)
(* by disjoint handlers, which is why they are explored separately.        *)
(*                                                                         *)
(* Callers are authenticated active users: every action modelled here but  *)
(* destroy carries permission_classes=[IsAuthenticated], and the           *)
(* framework's authentication refuses a user whose is_active is false.     *)
(* List requests carry no search / filter / ordering query parameter, so   *)
(* filter_queryset returns the queryset of get_queryset as it is.          *)
(***************************************************************************)
EXTENDS Integers, Sequences, FiniteSets

\* ------------------------------------------------------------------ bounds
NumUsers == 2
NumPasswords == 2
MaxPage == 2
MaxPageSize == 2
NumWorkers == 2

Users == 1..NumUsers
Workers == 1..NumWorkers
Pairs == Users \X Users

\* ------------------------------------------------------------------ values
\* The decimal text of a user id, as it arrives in the URL kwarg pk.
Digits == <<"1", "2", "3", "4", "5", "6", "7", "8", "9">>
IdStr(u) == Digits[u]
\* What the ORM makes of friend_id=pk: the text parsed back to the integer key.
ParseId(s) == CHOOSE u \in 1..Len(Digits) : Digits[u] = s

\* The pk values requests carry: the reserved id and the ids of the users.
PkValues == {"me"} \cup {IdStr(u) : u \in Users}

\* Python values with their type, for the comparisons of the handlers.
PyStr(s) == [type |-> "str", val |-> s]
PyInt(n) == [type |-> "int", val |-> n]
\* Python's ==: a str and an int are never equal.
PyEq(a, b) == a.type = b.type /\ a.val = b.val

\* usernames are unique; their order is not the order of the ids.
Username(u) == NumUsers + 1 - u

\* Whether the user is staff (an admin): user 1 is, the others are not.
is_staff(u) == u = 1

VARIABLES
    rows,       \* UserFriends table: number of rows for each (user, friend)
    active,     \* User.is_active of each user row
    password,   \* the password each user's stored hash was made from
    req,        \* the request handled last
    resp,       \* the response to it
    contested,  \* SpecConc: the add_friend request the workers issue
    pc,         \* SpecConc: where each worker is in add_friend
    wobs,       \* SpecConc: what each worker's first get observed
    wresp,      \* SpecConc: the response of each worker
    createdCount, \* SpecConc: 'friend added' responses since the last deletion
    stage       \* Spec: how far the last requests follow add, add, remove, remove

vars == <<rows, active, password, req, resp, contested, pc, wobs, wresp, createdCount, stage>>
concVars == <<contested, pc, wobs, wresp, createdCount>>

\* ---------------------------------------------------------------- requests
Req(op, user, pk, page, size, old, new) ==
    [op |-> op, user |-> user, pk |-> pk, page |-> page, size |-> size,
     old_password |-> old, new_password |-> new]

NoReq == Req("none", 0, "", 0, 0, 0, 0)

\* rest_framework Response: the HTTP status code and the body.
Response(code, status, message) ==
    [code |-> code, status |-> status, message |-> message, results |-> <<>>]

ListResponse(data) ==
    [code |-> 200, status |-> "", message |-> "", results |-> data]

NoResp == Response(0, "", "")

\* ------------------------------------------------------------------- state
Init ==
    /\ rows = [p \in Pairs |-> 0]
    /\ active = [u \in Users |-> TRUE]
    /\ password = [u \in Users |-> 1]
    /\ req = NoReq
    /\ resp = NoResp
    /\ contested = [user |-> 0, pk |-> ""]
    /\ pc = [w \in Workers |-> "idle"]
    /\ wobs = [w \in Workers |-> "none"]
    /\ wresp = [w \in Workers |-> NoResp]
    /\ createdCount = 0
    /\ stage = 0

\* ------------------------------------------------------- relationship store
\* pk == 'me' or pk == request.user.id
IsSelf(pk, user) == PyEq(PyStr(pk), PyStr("me")) \/ PyEq(PyStr(pk), PyInt(user))

\* The unique constraint on (user, friend): an INSERT is refused when a row
\* for the pair exists.
UniqueViolation(p) == rows[p] > 0

\* Mutant: create() in place of get_or_create().
CreatedAlways(p) == TRUE

\* UserFriends.objects.get_or_create(...)[1] when no other request interleaves.
Created(p) == rows[p] = 0

InsertRow(p) == [rows EXCEPT ![p] = @ + 1]

\* Mutant: the removal also drops the reverse row.
DeleteRowsBothWays(p) == [rows EXCEPT ![p] = 0, ![<<p[2], p[1]>>] = 0]

\* UserFriends.objects.filter(user=..., friend_id=...).delete()
DeleteRows(p) == [rows EXCEPT ![p] = 0]
Deleted(p) == rows[p]

SelfBefriendResponse == Response(200, "error", "you can't befriend yourself")

\* Mutant: the flag of get_or_create is ignored.
AddFriendResponseAlwaysAdded(created) == Response(200, "success", "friend added")

AddFriendResponse(created) ==
    IF created
    THEN Response(200, "success", "friend added")
    ELSE Response(200, "error", "user already your friend")

SelfUnfriendResponse == Response(200, "error", "you can't remove yourself from friends")

\* Mutant: a removal that found nothing is reported as a success.
RemoveFriendResponseSuccess(count) ==
    IF count # 0
    THEN Response(200, "success", "friend removed")
    ELSE Response(200, "success", "user is not your friend")

RemoveFriendResponse(count) ==
    IF count # 0
    THEN Response(200, "success", "friend removed")
    ELSE Response(200, "error", "user is not your friend")

add_friend(user, pk) ==
    /\ active[user]
    /\ req' = Req("add_friend", user, pk, 0, 0, 0, 0)
    /\ IF IsSelf(pk, user)
       THEN /\ resp' = SelfBefriendResponse
            /\ rows' = rows
       ELSE LET p == <<user, ParseId(pk)>> IN
            /\ rows' = IF Created(p) THEN InsertRow(p) ELSE rows
            /\ resp' = AddFriendResponse(Created(p))
    /\ UNCHANGED <<active, password>>

remove_friend(user, pk) ==
    /\ active[user]
    /\ req' = Req("remove_friend", user, pk, 0, 0, 0, 0)
    /\ IF IsSelf(pk, user)
       THEN /\ resp' = SelfUnfriendResponse
            /\ rows' = rows
       ELSE LET p == <<user, ParseId(pk)>> IN
            /\ rows' = DeleteRows(p)
            /\ resp' = RemoveFriendResponse(Deleted(p))
    /\ UNCHANGED <<active, password>>

\* --------------------------------------------------------------- accounts
NotFoundResponse == Response(404, "", "Not found.")
ForbiddenResponse == Response(403, "", "You do not have permission to perform this action.")

\* User.objects.filter(is_active=True).order_by('username')
RECURSIVE OrderByUsername(_)
OrderByUsername(S) ==
    IF S = {} THEN <<>>
    ELSE LET first == CHOOSE u \in S : \A v \in S : Username(u) <= Username(v)
         IN <<first>> \o OrderByUsername(S \ {first})

\* Mutant: the queryset is not restricted to the active users.
get_queryset_all == OrderByUsername(Users)

get_queryset == OrderByUsername({u \in Users : active[u]})

\* IsProfileOwnerOrAdmin.has_object_permission for a request that mutates.
IsProfileOwnerOrAdmin(user, obj) == user = obj \/ is_staff(user)

\* get_object: 'me' is the caller; any other pk is looked up in the active
\* users (404) and then checked against the object permissions (403).
get_object(user, pk) ==
    IF pk = "me" THEN [code |-> 200, obj |-> user]
    ELSE LET obj == ParseId(pk) IN
         IF ~(obj \in Users /\ active[obj]) THEN [code |-> 404, obj |-> 0]
         ELSE IF ~IsProfileOwnerOrAdmin(user, obj) THEN [code |-> 403, obj |-> 0]
         ELSE [code |-> 200, obj |-> obj]

ErrorResponse(code) == IF code = 404 THEN NotFoundResponse ELSE ForbiddenResponse

\* instance.is_active = False; instance.save()
Deactivate(obj) == [active EXCEPT ![obj] = FALSE]

destroy(user, pk) ==
    /\ active[user]
    /\ req' = Req("destroy", user, pk, 0, 0, 0, 0)
    /\ LET instance == get_object(user, pk) IN
       IF instance.code # 200
       THEN /\ resp' = ErrorResponse(instance.code)
            /\ active' = active
       ELSE /\ active' = Deactivate(instance.obj)
            /\ resp' = Response(200, "success", "Account is not active now")
    /\ UNCHANGED <<rows, password>>

\* ------------------------------------------------- relationship classifier
is_follower(viewer, candidate) == rows[<<candidate, viewer>>] > 0
is_followed(viewer, candidate) == rows[<<viewer, candidate>>] > 0
is_friends(viewer, candidate) ==
    is_follower(viewer, candidate) /\ is_followed(viewer, candidate)

\* serializer.data of one user, for the requesting viewer.
UserSerializer(viewer, u) ==
    [id |-> u, username |-> Username(u),
     is_follower |-> is_follower(viewer, u),
     is_followed |-> is_followed(viewer, u),
     is_friends |-> is_friends(viewer, u)]

get_serializer(viewer, page) ==
    [i \in 1..Len(page) |-> UserSerializer(viewer, page[i])]

\* Mutant: the serialized users are returned unfiltered.
_filter_serializer_keep_all(data, filter_key) == data

_filter_serializer(data, filter_key) ==
    SelectSeq(data, LAMBDA user : user[filter_key])

\* Paginator.num_pages, with the first page allowed to be empty.
NumPages(count, size) == IF count = 0 THEN 1 ELSE (count + size - 1) \div size

Min(a, b) == IF a < b THEN a ELSE b

\* paginate_queryset: the slice of the queryset that is page number `page`.
paginate_queryset(queryset, page, size) ==
    SubSeq(queryset, (page - 1) * size + 1, Min(page * size, Len(queryset)))

\* ListModelMixin.list: the page (or the whole queryset), serialized.
list_response(viewer, page, size) ==
    LET queryset == get_queryset IN
    IF size # 0
    THEN IF page > NumPages(Len(queryset), size)
         THEN NotFoundResponse
         ELSE ListResponse(get_serializer(viewer, paginate_queryset(queryset, page, size)))
    ELSE ListResponse(get_serializer(viewer, queryset))

\* Mutant: the flag is tested before the queryset is paginated.
_list_response_filter_first(viewer, serializer_filter, page, size) ==
    LET data == _filter_serializer(get_serializer(viewer, get_queryset), serializer_filter) IN
    IF size # 0
    THEN IF page > NumPages(Len(data), size)
         THEN NotFoundResponse
         ELSE ListResponse(paginate_queryset(data, page, size))
    ELSE ListResponse(data)

\* size = 0 stands for a request the paginator does not paginate
\* (paginate_queryset returns None); a page past the last one is a 404.
_list_response(viewer, serializer_filter, page, size) ==
    LET queryset == get_queryset IN
    IF size # 0
    THEN IF page > NumPages(Len(queryset), size)
         THEN NotFoundResponse
         ELSE ListResponse(_filter_serializer(
                  get_serializer(viewer, paginate_queryset(queryset, page, size)),
                  serializer_filter))
    ELSE ListResponse(_filter_serializer(get_serializer(viewer, queryset),
                                         serializer_filter))

ListView(op, serializer_filter, user, page, size) ==
    /\ active[user]
    /\ req' = Req(op, user, "", page, size, 0, 0)
    /\ resp' = _list_response(user, serializer_filter, page, size)
    /\ UNCHANGED <<rows, active, password>>

list(user, page, size) ==
    /\ active[user]
    /\ req' = Req("list", user, "", page, size, 0, 0)
    /\ resp' = list_response(user, page, size)
    /\ UNCHANGED <<rows, active, password>>

friends(user, page, size) == ListView("friends", "is_friends", user, page, size)
followers(user, page, size) == ListView("followers", "is_follower", user, page, size)
followed(user, page, size) == ListView("followed", "is_followed", user, page, size)

\* The page and page size a list request asks for.
Pages == 1..MaxPage
PageSizes == 0..MaxPageSize

\* --------------------------------------------------------- change_password
\* ChangePasswordSerializer.is_valid(): both fields are required and not blank
\* (0 stands for a field that is missing, blank or refused by a validator).
is_valid(old, new) == old # 0 /\ new # 0

\* Mutant: the old password is not checked.
check_password_skipped(instance, raw) == TRUE

\* instance.check_password(raw): the stored hash was made from raw.
check_password(instance, raw) == password[instance] = raw

\* instance.set_password(raw); instance.save()
set_password(instance, raw) == [password EXCEPT ![instance] = raw]

WrongPasswordResponse == Response(400, "", "old_password: Wrong password.")
SerializerErrorsResponse == Response(400, "", "serializer.errors")

change_password(user, pk, old, new) ==
    /\ active[user]
    /\ req' = Req("change_password", user, pk, 0, 0, old, new)
    /\ LET instance == get_object(user, pk) IN
       IF instance.code # 200
       THEN /\ resp' = ErrorResponse(instance.code)
            /\ password' = password
       ELSE IF is_valid(old, new)
       THEN IF ~check_password(instance.obj, old)
            THEN /\ resp' = WrongPasswordResponse
                 /\ password' = password
            ELSE /\ password' = set_password(instance.obj, new)
                 /\ resp' = Response(200, "success", "Password updated successfully")
       ELSE /\ resp' = SerializerErrorsResponse
            /\ password' = password
    /\ UNCHANGED <<rows, active>>

\* The values a request puts in old_password and new_password.
PasswordInputs == 0..NumPasswords

\* ---------------------------------------------------------- specifications
\* Relationship store: requests handled back to back; req and resp hold the
\* request handled last and its response.
\* History: the position of the request being handled in the sequence
\* add_friend(A, B), add_friend(A, B), remove_friend(A, B), remove_friend(A, B)
\* of one caller A and one other user B, begun where no row (A, B) exists.
NextStage(op, user, pk) ==
    LET same == req.user = user /\ req.pk = pk
        other == pk # "me" /\ ParseId(pk) # user
    IN  IF ~other THEN 0
        ELSE IF op = "add_friend"
        THEN IF stage = 1 /\ same THEN 2
             ELSE IF rows[<<user, ParseId(pk)>>] = 0 THEN 1 ELSE 0
        ELSE IF op = "remove_friend" /\ stage \in {2, 3} /\ same THEN stage + 1
        ELSE 0

Next ==
    \/ \E user \in Users, pk \in PkValues :
           /\ add_friend(user, pk)
           /\ stage' = NextStage("add_friend", user, pk)
           /\ UNCHANGED concVars
    \/ \E user \in Users, pk \in PkValues :
           /\ remove_friend(user, pk)
           /\ stage' = NextStage("remove_friend", user, pk)
           /\ UNCHANGED concVars
    \/ \E user \in Users, pk \in PkValues :
           /\ destroy(user, pk)
           /\ stage' = NextStage("destroy", user, pk)
           /\ UNCHANGED concVars

Spec == Init /\ [][Next]_vars

\* The response reaches the client, which may then send its next request.
Return ==
    /\ req # NoReq
    /\ req' = NoReq
    /\ resp' = NoResp
    /\ UNCHANGED <<rows, active, password>>

\* Relationship classifier: a request is handled, its response is returned,
\* and only then is the next request handled.
NextView ==
    \/ \E user \in Users, pk \in PkValues :
           req = NoReq /\ add_friend(user, pk) /\ UNCHANGED <<concVars, stage>>
    \/ \E user \in Users, pk \in PkValues :
           req = NoReq /\ remove_friend(user, pk) /\ UNCHANGED <<concVars, stage>>
    \/ \E user \in Users, pk \in PkValues :
           req = NoReq /\ destroy(user, pk) /\ UNCHANGED <<concVars, stage>>
    \/ \E user \in Users, page \in Pages, size \in PageSizes :
           req = NoReq /\ list(user, page, size) /\ UNCHANGED <<concVars, stage>>
    \/ \E user \in Users, page \in Pages, size \in PageSizes :
           req = NoReq /\ friends(user, page, size) /\ UNCHANGED <<concVars, stage>>
    \/ \E user \in Users, page \in Pages, size \in PageSizes :
           req = NoReq /\ followers(user, page, size) /\ UNCHANGED <<concVars, stage>>
    \/ \E user \in Users, page \in Pages, size \in PageSizes :
           req = NoReq /\ followed(user, page, size) /\ UNCHANGED <<concVars, stage>>
    \/ Return /\ UNCHANGED <<concVars, stage>>

SpecView == Init /\ [][NextView]_vars

\* Accounts: password change and deactivation, requests handled back to back.
NextPw ==
    \/ \E user \in Users, pk \in PkValues, old \in PasswordInputs, new \in PasswordInputs :
           change_password(user, pk, old, new) /\ UNCHANGED <<concVars, stage>>
    \/ \E user \in Users, pk \in PkValues :
           destroy(user, pk) /\ UNCHANGED <<concVars, stage>>

SpecPw == Init /\ [][NextPw]_vars

\* ------------------------------------------------ concurrent add_friend
\* Workers handle add_friend(contested.user, contested.pk) at the same time.
\* get_or_create is a SELECT, then an INSERT in a savepoint, then, when the
\* INSERT is refused with IntegrityError, a second SELECT.
InitConc ==
    /\ rows = [p \in Pairs |-> 0]
    /\ active = [u \in Users |-> TRUE]
    /\ password = [u \in Users |-> 1]
    /\ req = NoReq
    /\ resp = NoResp
    /\ contested \in [user : Users, pk : PkValues]
    /\ pc = [w \in Workers |-> "idle"]
    /\ wobs = [w \in Workers |-> "none"]
    /\ wresp = [w \in Workers |-> NoResp]
    /\ createdCount = 0
    /\ stage = 0

ContestedPair == <<contested.user, ParseId(contested.pk)>>

IntegrityErrorResponse == Response(500, "", "IntegrityError")

\* History: one more 'friend added' response since the last deletion
\* (counted up to 2).
CountCreated(response) ==
    IF response.message = "friend added" THEN Min(createdCount + 1, 2) ELSE createdCount

\* The handler starts: the self check of add_friend.
AddStart(w) ==
    /\ pc[w] = "idle"
    /\ active[contested.user]
    /\ wobs' = [wobs EXCEPT ![w] = "none"]
    /\ IF IsSelf(contested.pk, contested.user)
       THEN /\ wresp' = [wresp EXCEPT ![w] = SelfBefriendResponse]
            /\ pc' = [pc EXCEPT ![w] = "done"]
       ELSE /\ wresp' = [wresp EXCEPT ![w] = NoResp]
            /\ pc' = [pc EXCEPT ![w] = "get"]
    /\ UNCHANGED <<rows, active, password, req, resp, contested, createdCount, stage>>

\* get_or_create: self.get(**kwargs)
AddGet(w) ==
    /\ pc[w] = "get"
    /\ IF rows[ContestedPair] > 0
       THEN /\ wobs' = [wobs EXCEPT ![w] = "present"]
            /\ wresp' = [wresp EXCEPT ![w] = AddFriendResponse(FALSE)]
            /\ pc' = [pc EXCEPT ![w] = "done"]
            /\ createdCount' = CountCreated(AddFriendResponse(FALSE))
       ELSE /\ wobs' = [wobs EXCEPT ![w] = "absent"]
            /\ pc' = [pc EXCEPT ![w] = "create"]
            /\ UNCHANGED <<wresp, createdCount>>
    /\ UNCHANGED <<rows, active, password, req, resp, contested, stage>>

\* get_or_create: self.create(**params) inside transaction.atomic
AddCreate(w) ==
    /\ pc[w] = "create"
    /\ IF UniqueViolation(ContestedPair)
       THEN /\ pc' = [pc EXCEPT ![w] = "reget"]
            /\ UNCHANGED <<rows, wresp, createdCount>>
       ELSE /\ rows' = InsertRow(ContestedPair)
            /\ wresp' = [wresp EXCEPT ![w] = AddFriendResponse(TRUE)]
            /\ pc' = [pc EXCEPT ![w] = "done"]
            /\ createdCount' = CountCreated(AddFriendResponse(TRUE))
    /\ UNCHANGED <<active, password, req, resp, contested, wobs, stage>>

\* get_or_create: except IntegrityError: self.get(**kwargs), else re-raise
AddReGet(w) ==
    /\ pc[w] = "reget"
    /\ IF rows[ContestedPair] > 0
       THEN /\ wresp' = [wresp EXCEPT ![w] = AddFriendResponse(FALSE)]
            /\ createdCount' = CountCreated(AddFriendResponse(FALSE))
       ELSE /\ wresp' = [wresp EXCEPT ![w] = IntegrityErrorResponse]
            /\ UNCHANGED createdCount
    /\ pc' = [pc EXCEPT ![w] = "done"]
    /\ UNCHANGED <<rows, active, password, req, resp, contested, wobs, stage>>

\* The response is sent and the worker is free for the next request.
AddReturn(w) ==
    /\ pc[w] = "done"
    /\ pc' = [pc EXCEPT ![w] = "idle"]
    /\ wobs' = [wobs EXCEPT ![w] = "none"]
    /\ wresp' = [wresp EXCEPT ![w] = NoResp]
    /\ UNCHANGED <<rows, active, password, req, resp, contested, createdCount, stage>>

\* A remove_friend request for the same edge: one DELETE statement.  History:
\* a deletion makes what the workers in flight observed stale.
ConcRemove ==
    /\ remove_friend(contested.user, contested.pk)
    /\ IF rows' # rows
       THEN /\ createdCount' = 0
            /\ wobs' = [w \in Workers |-> IF wobs[w] = "none" THEN "none" ELSE "stale"]
       ELSE UNCHANGED <<createdCount, wobs>>
    /\ UNCHANGED <<contested, pc, wresp, stage>>

NextConc ==
    \/ \E w \in Workers : AddStart(w)
    \/ \E w \in Workers : AddGet(w)
    \/ \E w \in Workers : AddCreate(w)
    \/ \E w \in Workers : AddReGet(w)
    \/ \E w \in Workers : AddReturn(w)
    \/ ConcRemove

SpecConc == InitConc /\ [][NextConc]_vars

\* ================================================================== claims
AddReq(A, B) == Req("add_friend", A, IdStr(B), 0, 0, 0, 0)
RemoveReq(A, B) == Req("remove_friend", A, IdStr(B), 0, 0, 0, 0)
FriendOps == {"add_friend", "remove_friend"}

\* C1: an add_friend or remove_friend request whose target names the caller
\* itself, by the reserved id 'me' or by the caller's own id as the URL carries
\* it, is answered with the self-befriend / self-unfriend error and leaves the
\* rows unchanged, so that no state holds a row (A, A).
C1_SelfTargetRefused ==
    /\ [][(req'.op \in FriendOps /\ req'.pk \in {"me", IdStr(req'.user)})
            => /\ rows' = rows
               /\ resp' = IF req'.op = "add_friend"
                          THEN Response(200, "error", "you can't befriend yourself")
                          ELSE Response(200, "error", "you can't remove yourself from friends")
         ]_vars
    /\ [](\A A \in Users : rows[<<A, A>>] = 0)

\* C2: for distinct users A and B, from a state with no row (A, B): the first
\* add_friend(A, B) reports 'friend added', the second 'user already your
\* friend' and leaves the rows as the first left them; the remove_friend(A, B)
\* that follows reports 'friend removed', and the one after it 'user is not
\* your friend' and leaves the rows as the first removal left them.
C2_AddAddRemoveRemove ==
    [][\A A \in Users : \A B \in Users \ {A} :
          LET e == <<A, B>> IN
          /\ (rows[e] = 0 /\ req' = AddReq(A, B))
               => /\ stage' = 1
                  /\ resp'.message = "friend added"
                  /\ rows' = [rows EXCEPT ![e] = 1]
          /\ (stage = 1 /\ req = AddReq(A, B) /\ req' = AddReq(A, B))
               => /\ stage' = 2
                  /\ resp'.message = "user already your friend"
                  /\ rows' = rows
          /\ (stage = 2 /\ req = AddReq(A, B) /\ req' = RemoveReq(A, B))
               => /\ stage' = 3
                  /\ resp'.message = "friend removed"
                  /\ rows' = [rows EXCEPT ![e] = 0]
          /\ (stage = 3 /\ req = RemoveReq(A, B) /\ req' = RemoveReq(A, B))
               => /\ stage' = 4
                  /\ resp'.message = "user is not your friend"
                  /\ rows' = rows
      ]_vars

\* The fourth request of the sequence has been answered.
C2_Witness ==
    /\ stage = 4
    /\ req.op = "remove_friend"
    /\ resp.message = "user is not your friend"

\* C3: an add_friend or remove_friend request of caller A with target B leaves
\* every row but (A, B) as it was, the reverse row (B, A) included, and
\* changes no user.
C3_SingleEdgeFrame ==
    [][req'.op \in FriendOps
         => /\ active' = active
            /\ password' = password
            /\ IF req'.pk = "me"
               THEN rows' = rows
               ELSE \A p \in Pairs :
                      p # <<req'.user, ParseId(req'.pk)>> => rows'[p] = rows[p]
      ]_vars

\* A removal took effect while the reverse row was there, and it still is.
C3_Witness ==
    /\ req.op = "remove_friend"
    /\ resp.message = "friend removed"
    /\ req.pk # "me"
    /\ ParseId(req.pk) # req.user
    /\ rows[<<ParseId(req.pk), req.user>>] = 1

\* C8 as stated: adding a row that exists and removing a row that does not
\* are answered with status 'success'.
C8_DuplicateIsSuccess ==
    [][\A A \in Users : \A B \in Users \ {A} :
          /\ (rows[<<A, B>>] > 0 /\ req' = AddReq(A, B)) => resp'.status = "success"
          /\ (rows[<<A, B>>] = 0 /\ req' = RemoveReq(A, B)) => resp'.status = "success"
      ]_vars

\* C8, amended: both are answered with HTTP 200 and a body whose status is
\* 'error', with the informational message, and the rows are left unchanged.
C8_DuplicateIsError200 ==
    [][\A A \in Users : \A B \in Users \ {A} :
          /\ (rows[<<A, B>>] > 0 /\ req' = AddReq(A, B))
               => /\ resp' = Response(200, "error", "user already your friend")
                  /\ rows' = rows
          /\ (rows[<<A, B>>] = 0 /\ req' = RemoveReq(A, B))
               => /\ resp' = Response(200, "error", "user is not your friend")
                  /\ rows' = rows
      ]_vars

\* A duplicate add_friend has been answered.
C8_Witness ==
    /\ req.op = "add_friend"
    /\ stage = 2
    /\ resp.code = 200
    /\ resp.status = "error"

\* ---------------------------------------------------------- list views
ViewOps == {"friends", "followers", "followed"}
ListOps == ViewOps \cup {"list"}

\* The place of an active user in the username-ascending list of active users.
Rank(u) == Cardinality({v \in Users : active[v] /\ Username(v) < Username(u)}) + 1

\* The users of the slice a list request asks for (all of them when the
\* request is not paginated).
InSlice(r, u) ==
    /\ active[u]
    /\ r.size # 0 => /\ (r.page - 1) * r.size < Rank(u)
                     /\ Rank(u) <= r.page * r.size

\* Whether the rows put user u in the view `op` of the viewer.
Flag(op, viewer, u) ==
    CASE op = "followers" -> rows[<<u, viewer>>] > 0
      [] op = "followed" -> rows[<<viewer, u>>] > 0
      [] op = "friends" -> rows[<<u, viewer>>] > 0 /\ rows[<<viewer, u>>] > 0

\* The ids of the users a list response holds.
Listed == {resp.results[i].id : i \in 1..Len(resp.results)}

ViewAnswered == req.op \in ViewOps /\ resp.code = 200

AllFit(r) == r.size = 0 \/ (r.page = 1 /\ Cardinality({u \in Users : active[u]}) <= r.size)

\* C5: when all active users fit on the requested page, followers(A) holds B
\* exactly when the row (B, A) exists, followed(A) holds B exactly when the
\* row (A, B) exists, and A itself is in neither.
C5_FollowersFollowedExact ==
    (req.op \in {"followers", "followed"} /\ resp.code = 200 /\ AllFit(req)) =>
        /\ \A B \in Users : active[B] => (B \in Listed <=> Flag(req.op, req.user, B))
        /\ req.user \notin Listed

\* C6: destroy only sets is_active of its target to false: the user rows, the
\* relationship rows and the passwords stay; a deactivated user is never
\* active again, and no list, friends, followers or followed response holds a
\* user that is not active.
C6_DeactivationIsLogical ==
    [][/\ req'.op = "destroy" =>
            /\ rows' = rows
            /\ password' = password
            /\ DOMAIN active' = Users
            /\ LET target == IF req'.pk = "me" THEN req'.user ELSE ParseId(req'.pk)
               IN  IF resp'.code = 200
                   THEN active' = [active EXCEPT ![target] = FALSE]
                   ELSE active' = active
       /\ \A u \in Users : ~active[u] => ~active'[u]
       /\ (req'.op \in ListOps /\ resp'.code = 200) =>
            \A i \in 1..Len(resp'.results) : active'[resp'.results[i].id]
      ]_vars

\* An unpaginated friends response that leaves out a deactivated user whose
\* rows to and from the viewer are still there.
C6_Witness ==
    /\ req.op = "friends"
    /\ req.size = 0
    /\ resp.code = 200
    /\ \E u \in Users :
          /\ ~active[u]
          /\ rows[<<u, req.user>>] = 1
          /\ rows[<<req.user, u>>] = 1
          /\ u \notin Listed

Reaches(r, T) ==
    /\ r.op = "change_password"
    /\ active[T]
    /\ IF r.pk = "me" THEN T = r.user
       ELSE T = ParseId(r.pk) /\ (T = r.user \/ is_staff(r.user))

\* C7 as stated: a request that supplies an old_password which does not match
\* the current password gets the wrong-password error and changes nothing, whether or not
\* the rest of it is valid; the password changes only in a request that
\* supplied the current password.
C7_WrongPasswordAlways ==
    [][/\ \A T \in Users :
            (Reaches(req', T) /\ req'.old_password # 0
                              /\ req'.old_password # password[T]) =>
                /\ resp' = Response(400, "", "old_password: Wrong password.")
                /\ password' = password
       /\ \A T \in Users :
            password'[T] # password[T] =>
                Reaches(req', T) /\ req'.old_password = password[T]
      ]_vars

\* C7, amended: such a request is answered with HTTP 400 and changes nothing;
\* the answer is the wrong-password error when both fields pass validation and
\* the serializer's errors when they do not; the password changes only in a
\* valid request that supplied the current password.
C7_WrongPasswordAfterValidation ==
    [][/\ \A T \in Users :
            (Reaches(req', T) /\ req'.old_password # password[T]) =>
                /\ resp'.code = 400
                /\ password' = password
                /\ IF req'.old_password # 0 /\ req'.new_password # 0
                   THEN resp'.message = "old_password: Wrong password."
                   ELSE resp'.message = "serializer.errors"
       /\ \A T \in Users :
            password'[T] # password[T] =>
                /\ Reaches(req', T)
                /\ req'.old_password = password[T]
                /\ req'.new_password # 0
      ]_vars

\* A valid request with the wrong old password has been refused.
C7_Witness ==
    /\ req.op = "change_password"
    /\ req.new_password # 0
    /\ resp = Response(400, "", "old_password: Wrong password.")
    /\ \E T \in Users : Reaches(req, T) /\ req.old_password # password[T]

\* ------------------------------------------------ concurrent add_friend
\* The workers that have their answer, saw no row in their first SELECT, and
\* have had no deletion since.
RaceGroup == {w \in Workers : pc[w] = "done" /\ wobs[w] = "absent"}

\* C9: there is at most one row for each (user, friend), and of the add_friend
\* requests that each saw the row as absent exactly one is answered 'friend
\* added'; the others are answered 'user already your friend'.
C9_OneRowOneCreated ==
    /\ \A p \in Pairs : rows[p] <= 1
    /\ RaceGroup # {} =>
          /\ createdCount = 1
          /\ rows[ContestedPair] = 1
          /\ \A w \in RaceGroup :
                wresp[w].message \in {"friend added", "user already your friend"}
          /\ \A w, x \in RaceGroup :
                (wresp[w].message = "friend added" /\ wresp[x].message = "friend added")
                    => w = x

\* Two workers saw the row as absent; one created it, the other did not.
C9_Witness ==
    \E w, x \in RaceGroup :
        /\ wresp[w].message = "friend added"
        /\ wresp[x].message = "user already your friend"

=============================================================================
